---- MODULE Spec2Model ----
(***************************************************************************)
(* Mood detection and song recommendation pipeline of the Wellness Buddy   *)
(* API server: the lazily built classifier (services/mood_service.py),     *)
(* the POST /mood/detect handler (routers/mood.py) and the mood based      *)
(* recommender (recommender/mood_recommender.py).                          *)
(*                                                                         *)
(* Python strings that the code transforms (lower, strip) are sequences of *)
(* one-character strings; numeric audio features are in tenths.            *)
(***************************************************************************)
EXTENDS Integers, Sequences, FiniteSets, TLC

(* ------------------------------ bounds --------------------------------- *)

\* number of POST /mood/detect requests in flight in one process
NumReqs == 2
\* largest number of rows of genres.csv
MaxRows == 2
\* largest `limit` passed to recommend_songs_for_mood
MaxLimit == 2
\* largest height and width of a decoded image
MaxDim == 6
\* number of streak updates (completed focus sessions, tasks moved to done)
NumTasks == 3
\* the days (as day numbers) a streak update can be for
MaxDay == 3

(* ------------------------- Python values -------------------------------- *)

\* a cell of a dataframe row as row.get() returns it: a str, a float NaN
\* (empty csv cell), an int, or None (the column does not exist)
PyStr(s) == [t |-> "str", s |-> s, n |-> 0]
PyInt(n) == [t |-> "int", s |-> <<>>, n |-> n]
PyNaN == [t |-> "nan", s |-> <<>>, n |-> 0]
PyNone == [t |-> "none", s |-> <<>>, n |-> 0]

\* bool(v)
Truthy(v) ==
  CASE v.t = "str" -> Len(v.s) > 0
    [] v.t = "int" -> v.n # 0
    [] v.t = "nan" -> TRUE
    [] OTHER -> FALSE

\* a or b
PyOr(a, b) == IF Truthy(a) THEN a ELSE b

Digits == <<"0", "1", "2", "3", "4", "5", "6", "7", "8", "9">>

\* str(v), for the values the model uses (ints are 0..9)
PyToStr(v) ==
  CASE v.t = "str" -> v.s
    [] v.t = "int" -> <<Digits[v.n + 1]>>
    [] v.t = "nan" -> <<"n", "a", "n">>
    [] OTHER -> <<"N", "o", "n", "e">>

UpperChars == <<"A", "B", "C", "D", "E", "F", "G", "H", "I", "J", "K", "L", "M",
                "N", "O", "P", "Q", "R", "S", "T", "U", "V", "W", "X", "Y", "Z">>
LowerChars == <<"a", "b", "c", "d", "e", "f", "g", "h", "i", "j", "k", "l", "m",
                "n", "o", "p", "q", "r", "s", "t", "u", "v", "w", "x", "y", "z">>

LowerChar(c) ==
  IF \E i \in 1..26 : UpperChars[i] = c
  THEN LowerChars[CHOOSE i \in 1..26 : UpperChars[i] = c]
  ELSE c

\* str.lower()
StrLower(s) == [i \in 1..Len(s) |-> LowerChar(s[i])]

IsSpace(c) == c \in {" ", "\t", "\n"}

RECURSIVE LStrip(_)
LStrip(s) == IF s # <<>> /\ IsSpace(Head(s)) THEN LStrip(Tail(s)) ELSE s

RECURSIVE RStrip(_)
RStrip(s) ==
  IF s # <<>> /\ IsSpace(s[Len(s)]) THEN RStrip(SubSeq(s, 1, Len(s) - 1)) ELSE s

\* str.strip()
StrStrip(s) == RStrip(LStrip(s))

\* s.startswith(prefix)
StartsWith(s, prefix) ==
  Len(s) >= Len(prefix) /\ SubSeq(s, 1, Len(prefix)) = prefix

\* positions at which sep occurs in s
Occurrences(s, sep) ==
  { i \in 1..(Len(s) - Len(sep) + 1) : SubSeq(s, i, i + Len(sep) - 1) = sep }

Min(S) == CHOOSE x \in S : \A y \in S : x <= y

\* s.split(sep)[-1]: what follows the last separator found scanning left to right
RECURSIVE SplitLast(_, _)
SplitLast(s, sep) ==
  IF Occurrences(s, sep) = {} THEN s
  ELSE SplitLast(SubSeq(s, Min(Occurrences(s, sep)) + Len(sep), Len(s)), sep)

\* characters urllib leaves as they are
Unreserved ==
  {UpperChars[i] : i \in 1..26} \cup {LowerChars[i] : i \in 1..26}
  \cup {Digits[i] : i \in 1..10} \cup {"_", ".", "-", "~"}

\* the %XX escape of the other characters the model uses
PercentCode(c) ==
  CASE c = "&" -> <<"%", "2", "6">>
    [] c = ":" -> <<"%", "3", "A">>
    [] c = "/" -> <<"%", "2", "F">>
    [] OTHER -> <<"%", "3", "F">>

\* urllib.parse.quote_plus
RECURSIVE QuotePlus(_)
QuotePlus(s) ==
  IF s = <<>> THEN <<>>
  ELSE (IF Head(s) \in Unreserved THEN <<Head(s)>>
        ELSE IF Head(s) = " " THEN <<"+">>
        ELSE PercentCode(Head(s))) \o QuotePlus(Tail(s))

(* ------------------------- feature dataset ------------------------------ *)

\* one row of _df (genres.csv); valence, energy, acousticness in tenths;
\* genre, artist and uri are empty cells unless set with RowWith
Row(id, song_name, title, valence, energy, acousticness) ==
  [id |-> id, song_name |-> song_name, title |-> title,
   valence |-> valence, energy |-> energy, acousticness |-> acousticness,
   genre |-> PyNaN, artist |-> PyNaN, uri |-> PyNaN]

RowWith(row, genre, artist, uri) ==
  [row EXCEPT !.genre = genre, !.artist = artist, !.uri = uri]

NameA == PyStr(<<"A">>)
NameBlank == PyStr(<<" ">>)
IdX == PyStr(<<"x">>)

\* rows the dataset is drawn from: every combination of feature values on
\* and next to the thresholds, and two rows whose name is blank
RowKinds ==
  { Row(IdX, NameA, PyNaN, v, e, a) : v \in {4, 5, 6}, e \in {6, 7, 8}, a \in {4, 5} }
  \cup { Row(IdX, NameBlank, PyNaN, 6, 8, 4), Row(IdX, PyNone, NameBlank, 4, 6, 5) }

Datasets == UNION { [1..n -> RowKinds] : n \in 0..MaxRows }

SpotifyScheme == <<"s", "p", "o", "t", "i", "f", "y", ":", "t", "r", "a", "c", "k", ":">>
SpotifyWeb == <<"h", "t", "t", "p", "s", ":", "/", "/", "o", "p", "e", "n", ".", "s", "p", "o", "t", "i", "f", "y", ".", "c", "o", "m", "/", "t", "r", "a", "c", "k", "/">>
HttpScheme == <<"h", "t", "t", "p", ":", "/", "/">>
HttpsScheme == <<"h", "t", "t", "p", "s", ":", "/", "/">>
YoutubeSearch == <<"h", "t", "t", "p", "s", ":", "/", "/", "w", "w", "w", ".", "y", "o", "u", "t", "u", "b", "e", ".", "c", "o", "m", "/", "r", "e", "s", "u", "l", "t", "s", "?", "s", "e", "a", "r", "c", "h", "_", "q", "u", "e", "r", "y", "=">>

\* cells of the name, artist, uri and genre columns
SongNameCells ==
  {PyNaN, PyNone, NameBlank, NameA, PyStr(<<" ", "A", " ">>), PyStr(<<"R", "&", "B", " ", "x">>)}
TitleCells == {PyNaN, PyNone, NameBlank, PyStr(<<"T">>)}
ArtistCells == {PyNaN, PyNone, NameBlank, PyStr(<<"B">>)}
UriCells ==
  {PyNaN, PyNone, PyStr(<<>>), NameBlank, PyInt(5),
   PyStr(SpotifyScheme \o <<"x", "1">>), PyStr(SpotifyScheme \o <<"x", "1", " ">>),
   PyStr(HttpScheme \o <<"h">>), PyStr(HttpsScheme \o <<"h">>),
   PyStr(HttpsScheme \o <<"h", " ">>), PyStr(<<" ">> \o HttpScheme \o <<"h">>),
   PyStr(<<"f", "t", "p", ":", "/", "/", "h">>),
   PyStr(SpotifyScheme \o <<"a">> \o SpotifyScheme \o <<"b">>)}
GenreCells == {PyNaN, PyStr(<<"g", " ">>)}

\* rows that differ in the cells a Song is built from
RowVariants ==
  { RowWith(Row(IdX, sn, ti, 6, 8, 4), ge, ar, ur) :
      sn \in SongNameCells, ti \in TitleCells, ge \in GenreCells,
      ar \in ArtistCells, ur \in UriCells }

\* _df.index
Idx(d) == [i \in 1..Len(d) |-> i]

(* --------------------------- recommender -------------------------------- *)

Happy == <<"H", "a", "p", "p", "y">>
Sad == <<"S", "a", "d">>
Calm == <<"C", "a", "l", "m">>
Angry == <<"A", "n", "g", "r", "y">>

\* mood strings passed to the recommender
Moods == {Happy, Sad, Calm, Angry, <<"H", "A", "P", "P", "Y">>, <<"s", "a", "d">>,
          <<"N", "e", "u", "t", "r", "a", "l">>}

FilterStrict(d, mood) ==
  LET mood_lower == StrLower(mood) IN
  CASE mood_lower = <<"h", "a", "p", "p", "y">> -> SelectSeq(Idx(d), LAMBDA i : d[i].valence > 6)
    [] mood_lower = <<"s", "a", "d">> -> SelectSeq(Idx(d), LAMBDA i : d[i].valence < 4)
    [] mood_lower = <<"c", "a", "l", "m">> ->
         SelectSeq(Idx(d), LAMBDA i : d[i].acousticness > 5 /\ d[i].energy < 6)
    [] mood_lower = <<"a", "n", "g", "r", "y">> -> SelectSeq(Idx(d), LAMBDA i : d[i].energy > 8)
    [] OTHER -> Idx(d)

\* _filter_df_for_mood: the index labels, in dataframe order, of the rows kept
FilterDfForMood(d, mood) ==
  LET mood_lower == StrLower(mood) IN
  CASE mood_lower = <<"h", "a", "p", "p", "y">> -> SelectSeq(Idx(d), LAMBDA i : d[i].valence >= 6)
    [] mood_lower = <<"s", "a", "d">> -> SelectSeq(Idx(d), LAMBDA i : d[i].valence <= 4)
    [] mood_lower = <<"c", "a", "l", "m">> ->
         SelectSeq(Idx(d), LAMBDA i : d[i].acousticness >= 5 /\ d[i].energy <= 6)
    [] mood_lower = <<"a", "n", "g", "r", "y">> -> SelectSeq(Idx(d), LAMBDA i : d[i].energy >= 8)
    [] OTHER -> Idx(d)

NoFallback(d, filtered) == filtered

\* if subset.empty: subset = _df
FallbackSubset(d, filtered) == IF Len(filtered) = 0 THEN Idx(d) ELSE filtered

Range(s) == { s[i] : i \in 1..Len(s) }

\* DataFrame.sample(n): n distinct rows in a random order
SampleRows(subset, n) ==
  { p \in [1..n -> Range(subset)] : \A i, j \in 1..n : i # j => p[i] # p[j] }

SampleOffByOne(subset, limit) ==
  IF Len(subset) > limit + 1
  THEN IF limit < 0 THEN {[ok |-> FALSE, rows |-> <<>>]}
       ELSE {[ok |-> TRUE, rows |-> p] : p \in SampleRows(subset, limit)}
  ELSE {[ok |-> TRUE, rows |-> subset]}

\* if len(subset) > limit: subset = subset.sample(n=limit, random_state=None)
\* (sample raises ValueError for a negative n)
SampleSubset(subset, limit) ==
  IF Len(subset) > limit
  THEN IF limit < 0 THEN {[ok |-> FALSE, rows |-> <<>>]}
       ELSE {[ok |-> TRUE, rows |-> p] : p \in SampleRows(subset, limit)}
  ELSE {[ok |-> TRUE, rows |-> subset]}

\* name = str(row.get("song_name") or row.get("title") or "").strip()
RowName(row) == StrStrip(PyToStr(PyOr(PyOr(row.song_name, row.title), PyStr(<<>>))))

\* song_id = str(row.get("id") or "")
RowSongId(row) == PyToStr(PyOr(row.id, PyStr(<<>>)))

\* uri = str(raw_uri).strip() if isinstance(raw_uri, str) else ""
RawUri(row) == IF row.uri.t = "str" THEN StrStrip(row.uri.s) ELSE <<>>

SpotifyKeepScheme(uri) ==
  IF StartsWith(uri, SpotifyScheme) THEN SpotifyWeb \o uri ELSE uri

\* a "spotify:track:<id>" uri becomes the open.spotify.com address of the track
SpotifyToWeb(uri) ==
  IF StartsWith(uri, SpotifyScheme)
  THEN SpotifyWeb \o SplitLast(uri, SpotifyScheme)
  ELSE uri

\* f"{name} {row.get('artist', '')}".strip()
SearchText(row, name) ==
  StrStrip(name \o <<" ">> \o
           (IF row.artist.t = "none" THEN <<>> ELSE PyToStr(row.artist)))

NoSearchFallback(uri, row, name) == uri

\* the YouTube search link used when there is no http(s) uri
SearchFallback(uri, row, name) ==
  IF uri = <<>> \/ ~(StartsWith(uri, HttpScheme) \/ StartsWith(uri, HttpsScheme))
  THEN YoutubeSearch \o QuotePlus(SearchText(row, name))
  ELSE uri

\* the uri of the Song of a row
ResolveUri(row, name) == SearchFallback(SpotifyToWeb(RawUri(row)), row, name)

\* genre = str(raw_genre).strip() if isinstance(raw_genre, str) else None
RowGenre(row) == IF row.genre.t = "str" THEN PyStr(StrStrip(row.genre.s)) ELSE PyNone

\* the Song built from row i of the dataset; `row` records the index label
MakeSong(d, i) ==
  [row |-> i, id |-> RowSongId(d[i]), name |-> RowName(d[i]),
   genre |-> PyOr(RowGenre(d[i]), PyNone),
   uri |-> PyOr(PyStr(ResolveUri(d[i], RowName(d[i]))), PyNone)]

RECURSIVE BuildSongsNoSkip(_, _)
BuildSongsNoSkip(d, rows) ==
  IF rows = <<>> THEN <<>>
  ELSE <<MakeSong(d, Head(rows))>> \o BuildSongsNoSkip(d, Tail(rows))

\* the loop over subset.iterrows(): rows without a name are skipped
RECURSIVE BuildSongs(_, _)
BuildSongs(d, rows) ==
  IF rows = <<>> THEN <<>>
  ELSE IF RowName(d[Head(rows)]) = <<>> THEN BuildSongs(d, Tail(rows))
       ELSE <<MakeSong(d, Head(rows))>> \o BuildSongs(d, Tail(rows))

\* recommend_songs_for_mood(mood, limit): every outcome the call can have
RecommendCalls(d, mood, limit) ==
  LET filtered == FilterDfForMood(d, mood)
      subset == FallbackSubset(d, filtered)
  IN { [status |-> IF smp.ok THEN "returned" ELSE "raised",
        mood |-> mood, limit |-> limit,
        filtered |-> filtered, subset |-> subset, sampled |-> smp.rows,
        songs |-> IF smp.ok THEN BuildSongs(d, smp.rows) ELSE <<>>]
       : smp \in SampleSubset(subset, limit) }

NoCall ==
  [status |-> "none", mood |-> <<>>, limit |-> 0, filtered |-> <<>>,
   subset |-> <<>>, sampled |-> <<>>, songs |-> <<>>]

(* ---------------------------- classifier -------------------------------- *)

\* _EMOTION_DICT
EmotionDict == <<Angry, Sad, Happy, Calm>>

\* probabilities the softmax output is drawn from (a tie needs two equal ones)
Probs == {1, 2}
Predictions == [0..3 -> Probs]

ArgmaxLast(p) ==
  CHOOSE i \in DOMAIN p : \A j \in DOMAIN p : p[j] < p[i] \/ (p[j] = p[i] /\ j <= i)

\* int(np.argmax(prediction)): the first index holding the maximum
Argmax(p) ==
  CHOOSE i \in DOMAIN p : \A j \in DOMAIN p : p[j] < p[i] \/ (p[j] = p[i] /\ j >= i)

\* _EMOTION_DICT.get(maxindex, "Calm")
EmotionLabel(maxindex) ==
  IF maxindex \in 0..3 THEN EmotionDict[maxindex + 1] ELSE Calm

(* ------------------------------ requests -------------------------------- *)

Reqs == 1..NumReqs
NoModel == 0
NoPrediction == [i \in 0..3 |-> 0]

\* uploads: no bytes, bytes cv2.imdecode cannot parse, an encoded image
Uploads == {"empty", "garbage", "image"}

\* limit: int = 10
DefaultLimit == 10

\* genres.csv of the process the requests run in
ServedDataset ==
  <<Row(IdX, NameA, PyNaN, 6, 8, 4), Row(IdX, NameA, PyNaN, 4, 6, 5)>>

MsgEmptyUpload == "Uploaded image is empty."
MsgEmptyBytes == "Empty image bytes."
MsgDecode == "Could not decode image data."
MsgWeights == "Emotion model weights not found"
MsgPredict == "predict failed"
MsgAnalyze == "Failed to analyze image: "

(* ------------------------- region extraction ---------------------------- *)

\* gray.shape of the decoded images: every size up to MaxDim, and 200 x 100
Shapes ==
  { [h |-> h, w |-> w] : h \in 1..MaxDim, w \in 1..MaxDim }
  \cup { [h |-> 200, w |-> 100], [h |-> 100, w |-> 200] }

\* the rectangles (x, y, w, h) detectMultiScale can report in an image: squares
\* inside it
FaceRects(shape) ==
  IF shape.h > MaxDim \/ shape.w > MaxDim THEN {}
  ELSE { f \in [x : 0..(shape.w - 1), y : 0..(shape.h - 1), w : 1..MaxDim, h : 1..MaxDim] :
           f.w = f.h /\ f.x + f.w <= shape.w /\ f.y + f.h <= shape.h }

\* faces: no rectangle or one
FaceLists(shape) == {<<>>} \cup { <<f>> : f \in FaceRects(shape) }

\* the part a[start:stop] of an axis of length n: first index and length
Slice(start, stop, n) ==
  LET first == IF start < n THEN start ELSE n
      last == IF stop < n THEN stop ELSE n
  IN [first |-> first, len |-> IF last > first THEN last - first ELSE 0]

\* gray[ya:yb, xa:xb] of an image of the given shape
Region(shape, ya, yb, xa, xb) ==
  [y0 |-> Slice(ya, yb, shape.h).first, height |-> Slice(ya, yb, shape.h).len,
   x0 |-> Slice(xa, xb, shape.w).first, width |-> Slice(xa, xb, shape.w).len]

CenterCropSwapped(shape) ==
  LET h == shape.w
      w == shape.h
      size == IF h < w THEN h ELSE w
      y0 == (h - size) \div 2
      x0 == (w - size) \div 2
  IN Region(shape, y0, y0 + size, x0, x0 + size)

\* the fallback of predict_mood_from_image_bytes when no face is detected
CenterCrop(shape) ==
  LET h == shape.h
      w == shape.w
      size == IF h < w THEN h ELSE w
      y0 == (h - size) \div 2
      x0 == (w - size) \div 2
  IN Region(shape, y0, y0 + size, x0, x0 + size)

\* roi_gray: the center crop, or the first face
ExtractRegion(shape, faces) ==
  IF Len(faces) = 0 THEN CenterCrop(shape)
  ELSE Region(shape, faces[1].y, faces[1].y + faces[1].h,
              faces[1].x, faces[1].x + faces[1].w)

NoCrop ==
  [taken |-> FALSE, shape |-> [h |-> 1, w |-> 1], faces |-> <<>>,
   roi |-> [y0 |-> 0, height |-> 0, x0 |-> 0, width |-> 0]]

(* ---------------------------- study streaks ----------------------------- *)

Tasks == 1..NumTasks
Users == {1, 2}
Days == 1..MaxDay

\* find_one returned None
NoDoc ==
  [id |-> 0, userId |-> 0, current_streak |-> 0, longest_streak |-> 0,
   last_active_date |-> 0, active_dates |-> <<>>]

IdleTask == [pc |-> "idle", user |-> 0, day |-> 0, existing |-> NoDoc]

\* streaks.find_one({"userId": user_id}): the first document of the user
FindOneStreak(coll, user_id) ==
  IF \E i \in 1..Len(coll) : coll[i].userId = user_id
  THEN coll[Min({ i \in 1..Len(coll) : coll[i].userId = user_id })]
  ELSE NoDoc

\* the document inserted when the user has none
FirstStreak(id, user_id, day) ==
  [id |-> id, userId |-> user_id, current_streak |-> 1, longest_streak |-> 1,
   last_active_date |-> day, active_dates |-> <<day>>]

\* if day_str not in active_dates: active_dates.append(day_str)
WithDay(active_dates, day) ==
  IF day \in Range(active_dates) THEN active_dates ELSE Append(active_dates, day)

CountedStreakNoReset(existing, day) ==
  LET current == existing.current_streak + 1
  IN [existing EXCEPT
        !.current_streak = current,
        !.longest_streak = IF current > @ THEN current ELSE @,
        !.last_active_date = day,
        !.active_dates = WithDay(@, day)]

\* the fields written for a day other than last_active_date: the streak grows
\* on the day after last_active_date and restarts otherwise
CountedStreak(existing, day) ==
  LET current == IF day - existing.last_active_date = 1
                 THEN existing.current_streak + 1 ELSE 1
  IN [existing EXCEPT
        !.current_streak = current,
        !.longest_streak = IF current > @ THEN current ELSE @,
        !.last_active_date = day,
        !.active_dates = WithDay(@, day)]

\* the document written by an update that found `existing`
UpdatedStreak(existing, day) ==
  IF existing.last_active_date = day
  THEN [existing EXCEPT !.active_dates = WithDay(@, day)]
  ELSE CountedStreak(existing, day)

\* streaks.update_one({"_id": id}, {"$set": doc})
UpdateOne(coll, id, doc) ==
  [i \in 1..Len(coll) |-> IF coll[i].id = id THEN doc ELSE coll[i]]

(* ------------------------------ state ----------------------------------- *)

VARIABLES
  model,         \* mood_service._model: NoModel (None) or the instance held
  weights_exist, \* WEIGHTS_PATH.exists()
  attempts,      \* number of calls of _build_model so far
  builds,        \* number of Sequential instances that got their weights
  running,       \* requests executing code of their handler on the event loop
  req,           \* per request: position in detect_mood, locals, response
  mood_events,   \* db["mood_events"], in insertion order
  df,            \* mood_recommender._df
  rec,           \* the last direct call of recommend_songs_for_mood
  crop,          \* the last region extracted from a decoded image
  study_streaks, \* db["study_streaks"], in insertion order
  upd            \* per task: position in _update_streak_for_date, locals

vars ==
  <<model, weights_exist, attempts, builds, running, req, mood_events, df, rec,
    crop, study_streaks, upd>>

\* what the streak updates leave alone
pipelineVars == <<model, weights_exist, attempts, builds, running, req, mood_events, df, rec>>

IdleReq ==
  [pc |-> "idle", data |-> "empty", local |-> NoModel, built |-> NoModel,
   touched |-> FALSE, prediction |-> NoPrediction, label |-> <<>>,
   songs |-> <<>>, status |-> 0, detail |-> <<>>]

Init ==
  /\ model = NoModel
  /\ weights_exist \in BOOLEAN
  /\ attempts = 0
  /\ builds = 0
  /\ running = {}
  /\ req = [r \in Reqs |-> IdleReq]
  /\ mood_events = <<>>
  /\ df = ServedDataset
  /\ rec = NoCall
  /\ crop = NoCrop
  /\ study_streaks = <<>>
  /\ upd = [t \in Tasks |-> IdleTask]

ThreadPool(run) == TRUE

\* detect_mood is a coroutine (async def): the event loop starts or resumes it
\* only while no other coroutine is executing
Schedulable(run) == run = {}

\* the handler keeps the event loop until its next await
Executing(r) == r \in running

\* raise HTTPException(status_code, detail): the handler ends, loop released
Respond(r, code, detail) ==
  /\ req' = [req EXCEPT ![r].pc = "done", ![r].status = code, ![r].detail = detail]
  /\ running' = running \ {r}

\* except Exception as exc: raise HTTPException(500, f"Failed to analyze image: {exc}")
AnalyzeFailed(r, exc) == Respond(r, 500, <<MsgAnalyze, exc>>)

\* a client posts an upload; the handler suspends in `await image.read()`
Receive(r) ==
  /\ req[r].pc = "idle"
  /\ \E u \in Uploads : req' = [req EXCEPT ![r].pc = "read", ![r].data = u]
  /\ UNCHANGED <<model, weights_exist, attempts, builds, running, mood_events, df, rec, crop, study_streaks, upd>>

AcceptAnyUpload(data) == FALSE

\* `if not data:` in detect_mood
UploadIsEmpty(data) == data = "empty"

\* `if not image_bytes:` in predict_mood_from_image_bytes
BytesAreEmpty(image_bytes) == image_bytes = "empty"

\* cv2.imdecode(...) is None
DecodeFails(image_bytes) == image_bytes # "image"

\* image.read() has completed and the handler is resumed:
\* an empty upload is answered with 400, anything else enters the try block
ReadDone(r) ==
  /\ req[r].pc = "read"
  /\ Schedulable(running)
  /\ IF UploadIsEmpty(req[r].data)
     THEN Respond(r, 400, <<MsgEmptyUpload>>)
     ELSE /\ req' = [req EXCEPT ![r].pc = "decode"]
          /\ running' = running \cup {r}
  /\ UNCHANGED <<model, weights_exist, attempts, builds, mood_events, df, rec, crop, study_streaks, upd>>

\* predict_mood_from_image_bytes up to the region of interest:
\* the emptiness check, the decode, face detection and the crop
Decode(r) ==
  /\ req[r].pc = "decode"
  /\ Executing(r)
  /\ IF BytesAreEmpty(req[r].data) THEN AnalyzeFailed(r, MsgEmptyBytes)
     ELSE IF DecodeFails(req[r].data) THEN AnalyzeFailed(r, MsgDecode)
     ELSE /\ req' = [req EXCEPT ![r].pc = "get_model"]
          /\ UNCHANGED running
  /\ UNCHANGED <<model, weights_exist, attempts, builds, mood_events, df, rec, crop, study_streaks, upd>>

\* `if _model is None:` in _get_model
ModelIsNone(m) == m = NoModel

\* _get_model: the test of the global
GetModel(r) ==
  /\ req[r].pc = "get_model"
  /\ Executing(r)
  /\ IF ModelIsNone(model)
     THEN req' = [req EXCEPT ![r].pc = "build", ![r].touched = TRUE]
     ELSE req' = [req EXCEPT ![r].pc = "predict", ![r].touched = TRUE,
                             ![r].local = model]
  /\ UNCHANGED <<model, weights_exist, attempts, builds, running, mood_events, df, rec, crop, study_streaks, upd>>

\* _build_model: a new Sequential, FileNotFoundError without the weights file
BuildModel(r) ==
  /\ req[r].pc = "build"
  /\ Executing(r)
  /\ attempts' = attempts + 1
  /\ IF weights_exist
     THEN /\ builds' = builds + 1
          /\ req' = [req EXCEPT ![r].pc = "assign", ![r].built = builds + 1]
          /\ UNCHANGED running
     ELSE /\ AnalyzeFailed(r, MsgWeights)
          /\ UNCHANGED builds
  /\ UNCHANGED <<model, weights_exist, mood_events, df, rec, crop, study_streaks, upd>>

\* _model = _build_model(); return _model
AssignModel(r) ==
  /\ req[r].pc = "assign"
  /\ Executing(r)
  /\ model' = req[r].built
  /\ req' = [req EXCEPT ![r].pc = "predict", ![r].local = req[r].built]
  /\ UNCHANGED <<weights_exist, attempts, builds, running, mood_events, df, rec, crop, study_streaks, upd>>

\* model.predict, argmax and the label, then recommend_songs_for_mood(mood_label);
\* the handler suspends in `await db["mood_events"].insert_one(doc)`
Predict(r) ==
  /\ req[r].pc = "predict"
  /\ Executing(r)
  /\ \/ AnalyzeFailed(r, MsgPredict)
     \/ \E p \in Predictions :
          LET mood_label == EmotionLabel(Argmax(p)) IN
          \E call \in RecommendCalls(df, mood_label, DefaultLimit) :
            IF call.status = "returned"
            THEN /\ req' = [req EXCEPT ![r].pc = "insert", ![r].prediction = p,
                                       ![r].label = mood_label,
                                       ![r].songs = call.songs]
                 /\ running' = running \ {r}
            ELSE Respond(r, 500, <<"Internal Server Error">>)
  /\ UNCHANGED <<model, weights_exist, attempts, builds, mood_events, df, rec, crop, study_streaks, upd>>

EventDocNoSongs(r) == [userId |-> r, mood |-> req[r].label, songs |-> <<>>]

\* doc = {"userId": userId, "mood": mood_label, ..., "songs": songs_payload}
EventDoc(r) == [userId |-> r, mood |-> req[r].label, songs |-> req[r].songs]

\* the insert completes, the handler is resumed and returns the event (201)
Insert(r) ==
  /\ req[r].pc = "insert"
  /\ Schedulable(running)
  /\ mood_events' = Append(mood_events, EventDoc(r))
  /\ req' = [req EXCEPT ![r].pc = "done", ![r].status = 201]
  /\ UNCHANGED <<model, weights_exist, attempts, builds, running, df, rec, crop, study_streaks, upd>>

Next ==
  \E r \in Reqs :
    \/ Receive(r)
    \/ ReadDone(r)
    \/ Decode(r)
    \/ GetModel(r)
    \/ BuildModel(r)
    \/ AssignModel(r)
    \/ Predict(r)
    \/ Insert(r)

Spec == Init /\ [][Next]_vars

(* ------------------- the recommender called directly -------------------- *)

Limits == (-1)..MaxLimit

RecInit ==
  /\ model = NoModel
  /\ weights_exist = TRUE
  /\ attempts = 0
  /\ builds = 0
  /\ running = {}
  /\ req = [r \in Reqs |-> IdleReq]
  /\ mood_events = <<>>
  /\ df \in Datasets
  /\ rec = NoCall
  /\ crop = NoCrop
  /\ study_streaks = <<>>
  /\ upd = [t \in Tasks |-> IdleTask]

\* recommend_songs_for_mood(mood, limit); the function keeps nothing between
\* calls, so a behaviour records one call
Recommend ==
  /\ rec.status = "none"
  /\ \E mood \in Moods, limit \in Limits : rec' \in RecommendCalls(df, mood, limit)
  /\ UNCHANGED <<model, weights_exist, attempts, builds, running, req, mood_events, df, crop, study_streaks, upd>>

RecNext == Recommend

RecSpec == RecInit /\ [][RecNext]_vars

\* the recommender over a dataset of one row, for every kind of cell
RowInit ==
  /\ model = NoModel
  /\ weights_exist = TRUE
  /\ attempts = 0
  /\ builds = 0
  /\ running = {}
  /\ req = [r \in Reqs |-> IdleReq]
  /\ mood_events = <<>>
  /\ df \in { <<row>> : row \in RowVariants }
  /\ rec = NoCall
  /\ crop = NoCrop
  /\ study_streaks = <<>>
  /\ upd = [t \in Tasks |-> IdleTask]

RowSpec == RowInit /\ [][RecNext]_vars

(* ---------------------- the region extractor alone ---------------------- *)

\* the decode, face detection and crop of predict_mood_from_image_bytes on one
\* image
Extract ==
  /\ ~crop.taken
  /\ \E shape \in Shapes : \E faces \in FaceLists(shape) :
       crop' = [taken |-> TRUE, shape |-> shape, faces |-> faces,
                roi |-> ExtractRegion(shape, faces)]
  /\ UNCHANGED <<pipelineVars, study_streaks, upd>>

CropNext == Extract

CropSpec == Init /\ [][CropNext]_vars

(* --------------------------- streak updates ----------------------------- *)

\* _update_streak_for_date(db, user_id, day_str) is called and its find_one
\* is answered; the coroutine is suspended until then
FindOne(t) ==
  /\ upd[t].pc = "idle"
  /\ \E user_id \in Users, day \in Days :
       upd' = [upd EXCEPT ![t] = [pc |-> "found", user |-> user_id, day |-> day,
                                  existing |-> FindOneStreak(study_streaks, user_id)]]
  /\ UNCHANGED <<pipelineVars, crop, study_streaks>>

\* the insert_one or update_one of the update is carried out and it returns
WriteBack(t) ==
  /\ upd[t].pc = "found"
  /\ study_streaks' =
       IF upd[t].existing = NoDoc
       THEN Append(study_streaks,
                   FirstStreak(Len(study_streaks) + 1, upd[t].user, upd[t].day))
       ELSE UpdateOne(study_streaks, upd[t].existing.id,
                      UpdatedStreak(upd[t].existing, upd[t].day))
  /\ upd' = [upd EXCEPT ![t].pc = "done"]
  /\ UNCHANGED <<pipelineVars, crop>>

StreakNext == \E t \in Tasks : FindOne(t) \/ WriteBack(t)

StreakSpec == Init /\ [][StreakNext]_vars

(* ============================ properties ================================ *)

Done(r) == req[r].pc = "done"

\* the request got a model from _get_model
GotModel(r) == req[r].local # NoModel

\* the response of a request whose classification raised
LoadFailed(r) == Done(r) /\ req[r].detail = <<MsgAnalyze, MsgWeights>>

\* C1: under any interleaving of concurrent first-use requests _build_model
\* runs at most once in the process, and every request that got a model got
\* the same instance
C1_BuildRunsAtMostOnce ==
  /\ attempts <= 1
  /\ \A r1, r2 \in Reqs : GotModel(r1) /\ GotModel(r2) => req[r1].local = req[r2].local

\* C2: once a request has failed with the missing-weights load error, no later
\* step of any request runs _build_model again
C2_FailedLoadNotRetried ==
  [][(\E r \in Reqs : LoadFailed(r)) => attempts' = attempts]_vars

\* C3: the model starts unloaded, every request that produced a label ran on
\* the loaded model, and once the model is loaded no step rebuilds it,
\* replaces it or unloads it
C3_ModelLifecycleMonotone ==
  /\ model = NoModel
  /\ [][/\ model # NoModel =>
            model' = model /\ builds' = builds /\ attempts' = attempts
        /\ \A r \in Reqs :
            req'[r].label # <<>> => model' # NoModel /\ req'[r].local = model'
       ]_vars

\* C3 witness: the model is loaded and two requests have finished on it, one
\* with a mood event and one with a failure
C3_Witness ==
  \E r1, r2 \in Reqs :
    /\ model # NoModel
    /\ Done(r1) /\ req[r1].status = 201 /\ req[r1].local = model
    /\ Done(r2) /\ req[r2].status = 500 /\ req[r2].local = model

\* C4: a request whose upload is empty is answered with the 400 validation
\* error; it never calls _get_model, holds no model and gets no mood label
C4_EmptyUploadRejectedEarly ==
  \A r \in Reqs :
    req[r].data = "empty" /\ req[r].pc \notin {"idle", "read"} =>
      /\ Done(r)
      /\ req[r].status = 400
      /\ req[r].detail = <<MsgEmptyUpload>>
      /\ ~req[r].touched
      /\ req[r].local = NoModel
      /\ req[r].label = <<>>
      /\ \A i \in 1..Len(mood_events) : mood_events[i].userId # r

\* C4 witness: an empty upload has been answered while the model is unloaded
C4_Witness ==
  \E r \in Reqs :
    req[r].data = "empty" /\ Done(r) /\ req[r].status = 400 /\ model = NoModel

\* C5: undecodable non-empty bytes are answered with a client error (4xx),
\* not with the server-side status used when inference fails
C5_DecodeErrorIsClientFailure ==
  \A r \in Reqs :
    req[r].data = "garbage" /\ Done(r) =>
      req[r].status \in 400..499 /\ req[r].status # 500

Causes == {MsgEmptyBytes, MsgDecode, MsgWeights, MsgPredict}

\* the classifier was reached and the request ended with the analysis error
ClassificationFailed(r) == Done(r) /\ req[r].touched /\ req[r].status = 500

\* C6: every failure of the classification is reported with the same detail,
\* whatever the cause, and the detail does not contain the exception message
C6_AnalysisFailureIsOpaque ==
  \A r1, r2 \in Reqs :
    ClassificationFailed(r1) /\ ClassificationFailed(r2) =>
      /\ req[r1].detail = req[r2].detail
      /\ Range(req[r1].detail) \cap Causes = {}

\* label of an index under the fixed map 0=Angry, 1=Sad, 2=Happy, 3=Calm
FixedMap(i) ==
  CASE i = 0 -> Angry [] i = 1 -> Sad [] i = 2 -> Happy [] i = 3 -> Calm

\* C7: a request whose inference succeeded carries the label of the lowest
\* index holding the largest probability, one of Angry, Sad, Happy, Calm; a
\* request that failed carries no label
C7_LabelIsFirstArgmax ==
  \A r \in Reqs :
    /\ req[r].pc = "insert" \/ (Done(r) /\ req[r].status = 201) =>
         \E i \in 0..3 :
           /\ req[r].label = FixedMap(i)
           /\ \A j \in 0..3 : req[r].prediction[j] <= req[r].prediction[i]
           /\ \A j \in 0..(i - 1) : req[r].prediction[j] < req[r].prediction[i]
    /\ Done(r) /\ req[r].status # 201 => req[r].label = <<>>

\* C7 witness: a stored event whose prediction had its maximum at two indices
C7_Witness ==
  \E r \in Reqs :
    /\ Done(r) /\ req[r].status = 201
    /\ req[r].prediction = [i \in 0..3 |-> IF i \in {1, 3} THEN 2 ELSE 1]
    /\ req[r].label = Sad
    /\ \E i \in 1..Len(mood_events) : mood_events[i].mood = Sad

HappyLabels == {Happy, <<"H", "A", "P", "P", "Y">>}
SadLabels == {Sad, <<"s", "a", "d">>}
CalmLabels == {Calm}
AngryLabels == {Angry}

\* the predicate the filter of a mood label applies to a row
Matches(mood, row) ==
  CASE mood \in HappyLabels -> row.valence >= 6
    [] mood \in SadLabels -> row.valence <= 4
    [] mood \in CalmLabels -> row.acousticness >= 5 /\ row.energy <= 6
    [] mood \in AngryLabels -> row.energy >= 8
    [] OTHER -> TRUE

Called == rec.status # "none"

\* C8: the filter keeps exactly the rows matching the mood's predicate (the
\* label compared without case, every row for another label), each once, and
\* every song returned comes from a matching row unless no row matched
C8_FilterSelectsByMood ==
  Called =>
    /\ Range(rec.filtered) = { i \in 1..Len(df) : Matches(rec.mood, df[i]) }
    /\ Cardinality(Range(rec.filtered)) = Len(rec.filtered)
    /\ rec.filtered # <<>> =>
         \A k \in 1..Len(rec.songs) : Matches(rec.mood, df[rec.songs[k].row])

\* C8 witness: a HAPPY call on a dataset with a row of valence 0.6 and a row
\* below it returned the song of the first and not of the second
C8_Witness ==
  /\ rec.status = "returned"
  /\ rec.mood = <<"H", "A", "P", "P", "Y">>
  /\ \E i, j \in 1..Len(df) :
       /\ df[i].valence = 6 /\ df[j].valence = 5
       /\ \E k \in 1..Len(rec.songs) : rec.songs[k].row = i
       /\ \A k \in 1..Len(rec.songs) : rec.songs[k].row # j

\* C9: when no row matches the mood the candidates are the whole dataset, and
\* the candidates are never empty for a dataset that has rows
C9_EmptyFilterFallsBack ==
  Called =>
    /\ rec.filtered = <<>> => rec.subset = Idx(df)
    /\ Len(df) > 0 => Len(rec.subset) > 0

\* C9 witness: an Angry call on a dataset with rows but none of energy >= 0.8
\* returned songs
C9_Witness ==
  /\ rec.status = "returned"
  /\ rec.mood \in AngryLabels
  /\ Len(df) > 0
  /\ \A i \in 1..Len(df) : df[i].energy < 8
  /\ rec.filtered = <<>>
  /\ Len(rec.songs) > 0

\* C10: a call that returns gives at most `limit` songs and at most as many
\* songs as the dataset has rows
C10_AtMostLimitSongs ==
  rec.status = "returned" =>
    /\ Len(rec.songs) <= rec.limit
    /\ Len(rec.songs) <= Len(df)

\* C10 witness: more candidates than a positive limit, and exactly `limit`
\* songs returned
C10_Witness ==
  /\ rec.status = "returned"
  /\ rec.limit > 0
  /\ Len(rec.subset) > rec.limit
  /\ Len(rec.songs) = rec.limit

\* the rows of the dataset that satisfy the predicate of the mood of the call
Matching == { i \in 1..Len(df) : Matches(rec.mood, df[i]) }

\* the index labels of the songs returned, in the order returned
SongRows == [k \in 1..Len(rec.songs) |-> rec.songs[k].row]

\* the row has a display name that is not empty after trimming
Named(i) == RowName(df[i]) # <<>>

C12_BlankNamesSkippedNoBackfill ==
  rec.status = "returned" =>
    /\ \A k \in 1..Len(rec.songs) : rec.songs[k].name # <<>>
    /\ SongRows = SelectSeq(rec.sampled, Named)
    /\ Len(rec.songs) = Cardinality({ k \in 1..Len(rec.sampled) : Named(rec.sampled[k]) })

\* C12 witness: limit 1, the sampled row has a blank name and nothing is
\* returned although another candidate has a name
C12_Witness ==
  /\ rec.status = "returned"
  /\ rec.limit = 1
  /\ Len(rec.sampled) = 1
  /\ ~Named(rec.sampled[1])
  /\ rec.songs = <<>>
  /\ \E i \in Range(rec.subset) : Named(i)

\* the text has the given beginning
Begins(text, beginning) ==
  /\ Len(text) >= Len(beginning)
  /\ \A k \in 1..Len(beginning) : text[k] = beginning[k]

\* C13: every song returned has a uri that is a non-empty string beginning
\* with http:// or https://, whatever the uri cell of its row holds
C13_UriIsHttp ==
  \A k \in 1..Len(rec.songs) :
    /\ rec.songs[k].uri.t = "str"
    /\ rec.songs[k].uri.s # <<>>
    /\ Begins(rec.songs[k].uri.s, HttpScheme) \/ Begins(rec.songs[k].uri.s, HttpsScheme)

\* C13 witness: a song of a row whose uri cell is empty and a song of a row
\* whose uri is of another scheme, both with a search link
C13_Witness ==
  /\ rec.status = "returned"
  /\ Len(rec.songs) = 1
  /\ df[1].uri \in {PyNaN, PyStr(<<"f", "t", "p", ":", "/", "/", "h">>)}
  /\ Begins(rec.songs[1].uri.s, YoutubeSearch)

\* the uri cell of the row of a song, as text (no text for a cell that is not
\* a string)
CellText(k) ==
  IF df[rec.songs[k].row].uri.t = "str" THEN df[rec.songs[k].row].uri.s ELSE <<>>

\* what follows the Spotify scheme in a text that begins with it
TrackId(text) == SubSeq(text, Len(SpotifyScheme) + 1, Len(text))

\* C14 as claimed: a uri cell spotify:track:<id> gives exactly
\* https://open.spotify.com/track/<id>, and a uri cell beginning with http://
\* or https:// is the uri of the song unchanged
C14_SpotifyRewrittenHttpUnchanged ==
  \A k \in 1..Len(rec.songs) :
    /\ Begins(CellText(k), SpotifyScheme) =>
         rec.songs[k].uri.s = SpotifyWeb \o TrackId(CellText(k))
    /\ Begins(CellText(k), HttpScheme) \/ Begins(CellText(k), HttpsScheme) =>
         rec.songs[k].uri.s = CellText(k)

\* C14 amended: the same of the uri cell with its surrounding whitespace
\* removed, for a track id that does not contain spotify:track: again
C14_TrimmedSpotifyRewrittenHttpKept ==
  \A k \in 1..Len(rec.songs) :
    LET text == StrStrip(CellText(k)) IN
    /\ Begins(text, SpotifyScheme) /\ Occurrences(TrackId(text), SpotifyScheme) = {} =>
         rec.songs[k].uri.s = SpotifyWeb \o TrackId(text)
    /\ Begins(text, HttpScheme) \/ Begins(text, HttpsScheme) =>
         rec.songs[k].uri.s = text

\* C14 witness: the song of a row with uri spotify:track:x1 has the uri
\* https://open.spotify.com/track/x1
C14_Witness ==
  /\ Len(rec.songs) = 1
  /\ df[1].uri = PyStr(SpotifyScheme \o <<"x", "1">>)
  /\ rec.songs[1].uri.s = SpotifyWeb \o <<"x", "1">>

\* the artist of a row as text: nothing when the row has no artist value
ArtistText(row) == IF row.artist.t = "str" THEN row.artist.s ELSE <<>>

\* the uri cell is missing, empty or neither http(s) nor a Spotify track uri
NoUsableUri(k) ==
  LET text == StrStrip(CellText(k)) IN
  ~Begins(text, SpotifyScheme) /\ ~Begins(text, HttpScheme) /\ ~Begins(text, HttpsScheme)

\* C15: without a usable uri cell the uri is the search address followed by the
\* URL-encoded trimmed text "<name> <artist>", and by the encoded name alone
\* when the row has no artist value
C15_SearchQueryIsNameAndArtist ==
  \A k \in 1..Len(rec.songs) :
    NoUsableUri(k) =>
      rec.songs[k].uri.s =
        YoutubeSearch \o
        QuotePlus(StrStrip(rec.songs[k].name \o <<" ">> \o ArtistText(df[rec.songs[k].row])))

\* a cell holds text that is not blank
Present(cell) == cell.t = "str" /\ StrStrip(cell.s) # <<>>

\* C17: the name of a song is the song_name of its row when that is present
\* and not blank and otherwise the title; a sampled row gives no song only
\* when both are missing or blank
C17_NameIsSongNameElseTitle ==
  rec.status = "returned" =>
    /\ \A k \in 1..Len(rec.songs) :
         LET row == df[rec.songs[k].row] IN
         rec.songs[k].name =
           IF Present(row.song_name) THEN StrStrip(row.song_name.s)
           ELSE StrStrip(row.title.s)
    /\ \A i \in Range(rec.sampled) :
         i \notin Range(SongRows) => ~Present(df[i].song_name) /\ ~Present(df[i].title)

\* the positions in mood_events of the records stored for a request
EventsOf(r) == { i \in 1..Len(mood_events) : mood_events[i].userId = r }

\* C18: a request has one record in mood_events, with the label and the songs
\* it returns, once it has ended with 201, and none at any other time (none
\* for an empty upload and none when the prediction raised)
C18_EventStoredOnlyOnSuccess ==
  \A r \in Reqs :
    IF Done(r) /\ req[r].status = 201
    THEN /\ Cardinality(EventsOf(r)) = 1
         /\ \A i \in EventsOf(r) :
              mood_events[i].mood = req[r].label /\ mood_events[i].songs = req[r].songs
    ELSE EventsOf(r) = {}

\* C18 witness: one request stored its event with songs, another ended with an
\* error and stored nothing
C18_Witness ==
  \E r1, r2 \in Reqs :
    /\ Done(r1) /\ req[r1].status = 201 /\ req[r1].songs # <<>>
    /\ Cardinality(EventsOf(r1)) = 1
    /\ Done(r2) /\ req[r2].status \in {400, 500}
    /\ EventsOf(r2) = {}

\* C16: without a detected face the region of an h x w image is the square of
\* side min(h, w) at ((h - min) div 2, (w - min) div 2): not empty, inside the
\* image, opposite margins at most one pixel apart; 100 x 100 for 200 x 100
C16_CenterCropIsCenteredSquare ==
  crop.taken /\ crop.faces = <<>> =>
    LET h == crop.shape.h
        w == crop.shape.w
        m == IF h <= w THEN h ELSE w
        roi == crop.roi
        below == h - (roi.y0 + roi.height)
        right == w - (roi.x0 + roi.width)
    IN /\ roi.height = m /\ roi.width = m /\ m >= 1
       /\ roi.y0 = (h - m) \div 2 /\ roi.x0 = (w - m) \div 2
       /\ roi.y0 >= 0 /\ roi.x0 >= 0 /\ below >= 0 /\ right >= 0
       /\ below - roi.y0 \in {0, 1} /\ right - roi.x0 \in {0, 1}
       /\ (h = 200 /\ w = 100) => roi.height = 100 /\ roi.width = 100

\* C16 witness: the crop of a 200 x 100 image without a face: 100 x 100, 50
\* rows above it
C16_Witness ==
  /\ crop.taken /\ crop.faces = <<>>
  /\ crop.shape = [h |-> 200, w |-> 100]
  /\ crop.roi = [y0 |-> 50, height |-> 100, x0 |-> 0, width |-> 100]

\* the documents of a user in study_streaks
StreaksOf(user_id) ==
  { i \in 1..Len(study_streaks) : study_streaks[i].userId = user_id }

\* C19: under any interleaving of streak updates study_streaks holds at most
\* one document per user
C19_OneStreakPerUser ==
  \A user_id \in Users : Cardinality(StreaksOf(user_id)) <= 1

\* C20: in every stored streak longest_streak >= current_streak >= 1 and
\* last_active_date is in active_dates, and no update lowers the
\* longest_streak of a stored streak
C20_StreakInvariants ==
  [][/\ \A i \in 1..Len(study_streaks') :
          /\ study_streaks'[i].current_streak >= 1
          /\ study_streaks'[i].longest_streak >= study_streaks'[i].current_streak
          /\ study_streaks'[i].last_active_date \in Range(study_streaks'[i].active_dates)
     /\ \A i \in 1..Len(study_streaks) :
          study_streaks'[i].longest_streak >= study_streaks[i].longest_streak
    ]_vars

\* update t has just written the document computed from the one it read
Wrote(t) ==
  /\ upd[t].pc = "found"
  /\ upd'[t].pc = "done"
  /\ upd[t].existing # NoDoc

\* the document update t has written, found by the _id of the one it read
Written(t) == study_streaks'[upd[t].existing.id]

TimesIn(active_dates, day) ==
  Cardinality({ i \in 1..Len(active_dates) : active_dates[i] = day })

\* C21: an update for the day equal to the last_active_date it read leaves
\* current_streak, longest_streak and last_active_date as read and leaves the
\* day once in active_dates; current_streak becomes the read value plus one
\* exactly when the day is the day after last_active_date, and becomes 1 for
\* any other different day
C21_CountedOncePerDay ==
  [][\A t \in Tasks : Wrote(t) =>
       LET existing == upd[t].existing
           day == upd[t].day
           last == upd[t].existing.last_active_date
       IN /\ day = last =>
               /\ Written(t).current_streak = existing.current_streak
               /\ Written(t).longest_streak = existing.longest_streak
               /\ Written(t).last_active_date = last
               /\ TimesIn(Written(t).active_dates, day) = 1
               /\ Len(Written(t).active_dates) = Len(existing.active_dates)
          /\ (Written(t).current_streak = existing.current_streak + 1) <=> (day - last = 1)
          /\ (day # last /\ day - last # 1) => Written(t).current_streak = 1
    ]_vars

\* one finished update repeated the day it read as last_active_date, and
\* another one for the following day has brought the streak to 2
C21_Witness ==
  \E t, u \in Tasks :
    /\ upd[t].pc = "done" /\ upd[t].existing # NoDoc
    /\ upd[t].day = upd[t].existing.last_active_date
    /\ upd[u].pc = "done" /\ upd[u].existing # NoDoc
    /\ upd[u].day - upd[u].existing.last_active_date = 1
    /\ study_streaks[upd[u].existing.id].current_streak = 2
    /\ study_streaks[upd[u].existing.id].last_active_date = upd[u].day

====
